---- MODULE Spec2Model ----
(***************************************************************************)
(* Icon generators of the BMS app: create_humaya_icons.py (Android icons   *)
(* from the logo file), create_ios_icons.py (iOS icons from the logo file) *)
(* and create_logo.py (Android icons from a drawn emblem).                 *)
(*                                                                         *)
(* A run is modelled statement by statement: the program counter pc walks  *)
(* through Image.open, the for loop over the size table and, per entry,    *)
(* Image.new, the scaling arithmetic, resize, centering, paste, makedirs,  *)
(* save and print.  Python floats are IEEE 754 binary64 values computed    *)
(* with correctly rounded operations; images are a background colour plus  *)
(* the list of paste/draw operations applied to it, and PixelAt gives the  *)
(* resulting pixel.                                                        *)
(***************************************************************************)
EXTENDS Integers, Sequences, FiniteSets, TLC

(***************************************************************************)
(* Bounds of the single-entry specification Spec.                          *)
(***************************************************************************)
MaxDim == 9
MaxSize == 12

(***************************************************************************)
(* Python float: binary64.  A float is [zero, m, e] with value             *)
(* m * 2^(e - 52), the 53-bit mantissa m held in four limbs of 18 bits     *)
(* (most significant first).  Only non-negative values occur.              *)
(***************************************************************************)
Limb == 262144
MantBits == 53

RECURSIVE Pow2(_)
Pow2(k) == IF k = 0 THEN 1 ELSE 2 * Pow2(k - 1)

RECURSIVE BitLen(_)
BitLen(n) == IF n = 0 THEN 0 ELSE 1 + BitLen(n \div 2)

BigZero == <<0, 0, 0, 0>>

BigOfInt(n) == <<0, 0, n \div Limb, n % Limb>>

BigMulSmall(A, n) ==
    LET p0 == A[4] * n
        p1 == A[3] * n + p0 \div Limb
        p2 == A[2] * n + p1 \div Limb
        p3 == A[1] * n + p2 \div Limb
    IN  <<p3, p2 % Limb, p1 % Limb, p0 % Limb>>

BigAddSmall(A, n) ==
    LET p0 == A[4] + n
        p1 == A[3] + p0 \div Limb
        p2 == A[2] + p1 \div Limb
        p3 == A[1] + p2 \div Limb
    IN  <<p3, p2 % Limb, p1 % Limb, p0 % Limb>>

BigGeq(A, B) ==
    IF A[1] # B[1] THEN A[1] > B[1]
    ELSE IF A[2] # B[2] THEN A[2] > B[2]
    ELSE IF A[3] # B[3] THEN A[3] > B[3]
    ELSE A[4] >= B[4]

BigSub(A, B) ==
    LET d0 == A[4] - B[4]
        b0 == IF d0 < 0 THEN 1 ELSE 0
        d1 == A[3] - B[3] - b0
        b1 == IF d1 < 0 THEN 1 ELSE 0
        d2 == A[2] - B[2] - b1
        b2 == IF d2 < 0 THEN 1 ELSE 0
        d3 == A[1] - B[1] - b2
    IN  <<d3, d2 + b2 * Limb, d1 + b1 * Limb, d0 + b0 * Limb>>

BigOdd(A) == A[4] % 2 = 1

BigBitLen(A) ==
    IF A[1] # 0 THEN 54 + BitLen(A[1])
    ELSE IF A[2] # 0 THEN 36 + BitLen(A[2])
    ELSE IF A[3] # 0 THEN 18 + BitLen(A[3])
    ELSE BitLen(A[4])

\* <<A \div d, A % d>> for 0 < d <= 4096
BigDivSmall(A, d) ==
    LET q1 == A[1] \div d
        r1 == A[1] % d
        q2 == (r1 * Limb + A[2]) \div d
        r2 == (r1 * Limb + A[2]) % d
        q3 == (r2 * Limb + A[3]) \div d
        r3 == (r2 * Limb + A[3]) % d
        q4 == (r3 * Limb + A[4]) \div d
        r4 == (r3 * Limb + A[4]) % d
    IN  <<(<<q1, q2, q3, q4>>), r4>>

\* A * 2^k, twelve bits at a time (the test on B, always true, has B computed
\* before the next round)
RECURSIVE BigShl(_, _)
BigShl(A, k) ==
    IF k <= 12 THEN BigMulSmall(A, Pow2(k))
    ELSE LET B == BigMulSmall(A, 4096)
         IN  IF B[4] >= 0 THEN BigShl(B, k - 12) ELSE B

\* <<A \div 2^k, guard bit, sticky bit>>: the bits shifted out, for rounding
RECURSIVE BigShr(_, _, _)
BigShr(A, k, sticky) ==
    IF k <= 12
    THEN LET qr == BigDivSmall(A, Pow2(k))
             half == IF k = 0 THEN 1 ELSE Pow2(k - 1)
         IN  IF k = 0 THEN <<A, 0, sticky>>
             ELSE <<qr[1],
                    IF qr[2] >= half THEN 1 ELSE 0,
                    IF sticky = 1 \/ qr[2] % half # 0 THEN 1 ELSE 0>>
    ELSE LET qr == BigDivSmall(A, 4096)
         IN  IF qr[2] # 0 THEN BigShr(qr[1], k - 12, 1)
             ELSE BigShr(qr[1], k - 12, sticky)

BigToInt(A) == A[3] * Limb + A[4]

BigTopBit == BigShl(BigOfInt(1), MantBits)

FZero == [zero |-> TRUE, m |-> BigZero, e |-> 0]

\* round half to even on the bits below the mantissa
RoundBits(Q, guard, sticky) ==
    IF guard = 1 /\ (sticky = 1 \/ BigOdd(Q)) THEN BigAddSmall(Q, 1) ELSE Q

\* a mantissa that rounded up to 2^53 is renormalised
Normal(Q, e) ==
    IF Q = BigTopBit THEN [zero |-> FALSE, m |-> BigDivSmall(Q, 2)[1], e |-> e + 1]
    ELSE [zero |-> FALSE, m |-> Q, e |-> e]

\* one bit of the long division num / den, den a small integer
DivSmallStep(st, den) ==
    LET r2 == 2 * st[2]
        bit == IF r2 >= den THEN 1 ELSE 0
    IN  <<BigAddSmall(BigMulSmall(st[1], 2), bit), r2 - bit * den>>

\* k bits of the long division; the remainder stays below den
RECURSIVE DivSmallIter(_, _, _)
DivSmallIter(st, den, k) ==
    IF k = 0 THEN st
    ELSE IF k = 1 THEN DivSmallStep(st, den)
    ELSE LET mid == DivSmallIter(st, den, k \div 2)
         IN  IF mid[2] < den THEN DivSmallIter(mid, den, k - k \div 2) ELSE mid

\* <<w', h', e>> with w/h = (w'/h') * 2^e and 1 <= w'/h' < 2
RECURSIVE Log2Quot(_, _, _)
Log2Quot(w, h, e) ==
    IF w >= 2 * h THEN Log2Quot(w, 2 * h, e + 1)
    ELSE IF w < h THEN Log2Quot(2 * w, h, e - 1)
    ELSE <<w, h, e>>

\* int / int: the float nearest to w / h (w >= 0, h > 0)
TrueDiv(w, h) ==
    IF w = 0 THEN FZero
    ELSE LET n == Log2Quot(w, h, 0)
             qr == DivSmallIter(<<BigOfInt(1), n[1] - n[2]>>, n[2], MantBits - 1)
             g == IF 2 * qr[2] >= n[2] THEN 1 ELSE 0
             s == IF 2 * qr[2] # n[2] /\ qr[2] # 0 THEN 1 ELSE 0
         IN  Normal(RoundBits(qr[1], g, s), n[3])

\* int * float: the float nearest to n * f (0 <= n < 8192)
FloatMul(n, f) ==
    IF n = 0 \/ f.zero THEN FZero
    ELSE LET P == BigMulSmall(f.m, n)
             k == BigBitLen(P) - MantBits
             qs == BigShr(P, k, 0)
         IN  Normal(RoundBits(qs[1], qs[2], qs[3]), f.e + k)

\* one bit of the long division by a 53-bit mantissa M
DivBigStep(st, M) ==
    LET R2 == BigMulSmall(st[2], 2)
        bit == IF BigGeq(R2, M) THEN 1 ELSE 0
    IN  <<BigAddSmall(BigMulSmall(st[1], 2), bit),
          IF bit = 1 THEN BigSub(R2, M) ELSE R2>>

\* k bits of the long division; the remainder stays below M
RECURSIVE DivBigIter(_, _, _)
DivBigIter(st, M, k) ==
    IF k = 0 THEN st
    ELSE IF k = 1 THEN DivBigStep(st, M)
    ELSE LET mid == DivBigIter(st, M, k \div 2)
         IN  IF BigGeq(mid[2], M) THEN mid ELSE DivBigIter(mid, M, k - k \div 2)

\* int / float: the float nearest to n / f (n >= 0, f > 0)
FloatDiv(n, f) ==
    IF n = 0 THEN FZero
    ELSE LET p == BitLen(n) - 1
             N0 == BigShl(BigOfInt(n), MantBits - 1 - p)
             big == BigGeq(N0, f.m)
             Num == IF big THEN N0 ELSE BigMulSmall(N0, 2)
             qr == DivBigIter(<<BigOfInt(1), BigSub(Num, f.m)>>, f.m, MantBits - 1)
             R2 == BigMulSmall(qr[2], 2)
             g == IF BigGeq(R2, f.m) THEN 1 ELSE 0
             s == IF R2 # f.m /\ qr[2] # BigZero THEN 1 ELSE 0
         IN  Normal(RoundBits(qr[1], g, s), IF big THEN p - f.e ELSE p - f.e - 1)

\* int(f): truncation (f >= 0, f < 2^31)
FloatToInt(f) ==
    IF f.zero \/ f.e < 0 THEN 0
    ELSE BigToInt(BigShr(f.m, MantBits - 1 - f.e, 0)[1])

\* f > 1
FloatGtOne(f) ==
    /\ ~f.zero
    /\ \/ f.e > 0
       \/ f.e = 0 /\ f.m # BigShl(BigOfInt(1), MantBits - 1)

\* the literal 0.8
PointEight == TrueDiv(4, 5)

(***************************************************************************)
(* PIL images.  An image is its size, the colour it was created with and   *)
(* the paste/draw operations applied since, oldest first.  Pixels are      *)
(* RGBA tuples.  The logo file holds an image of one colour.               *)
(***************************************************************************)
Transparent == <<255, 255, 255, 0>>
orange_color == <<255, 102, 0, 255>>
white_color == <<255, 255, 255, 255>>
HalfWhite == <<255, 255, 255, 128>>

\* Image.new('RGBA', (w, h), color)
ImageNew(w, h, color) == [width |-> w, height |-> h, fill |-> color, ops |-> <<>>]

NoImage == ImageNew(0 - 1, 0 - 1, <<0, 0, 0, 0>>)

\* Paste.c: DIV255 and BLEND8
Div255(a) == LET tmp == a + 128 IN (tmp \div 256 + tmp) \div 256

Blend8(mask, in1, in2) == Div255(in1 * (255 - mask) + in2 * mask)

\* PasteBox with the offset dropped
PasteBoxAtOrigin(x, y, im) == <<0, 0, im.width, im.height>>

\* the box (x0, y0, x1, y1) Image.paste builds from a 2-tuple and im.size
PasteBox(x, y, im) == <<x, y, x + im.width, y + im.height>>

\* icon.paste(im, (x, y), im): the pasted image is also the mask
ImagePaste(icon, im, x, y) ==
    [icon EXCEPT !.ops = Append(@, [kind |-> "paste", box |-> PasteBox(x, y, im),
                                    color |-> im.fill])]

\* draw.rectangle / draw.ellipse on the image, fill given, no outline
ImageDraw(img, kind, box, fill) ==
    [img EXCEPT !.ops = Append(@, [kind |-> kind, box |-> box, color |-> fill])]

\* a paste covers x0 <= px < x1, y0 <= py < y1
InPasteBox(box, px, py) ==
    box[1] <= px /\ px < box[3] /\ box[2] <= py /\ py < box[4]

\* draw.rectangle fills its bounding box, both end points included
InRectangle(box, px, py) ==
    box[1] <= px /\ px <= box[3] /\ box[2] <= py /\ py <= box[4]

\* draw.ellipse fills the ellipse inscribed in its bounding box, end points
\* included: it reaches the first and the last column and row of the box.  The
\* pixels of the rim are those of the exact disc; the library's rasteriser may
\* round single rim pixels differently.
InEllipse(box, px, py) ==
    LET a == box[3] - box[1]
        b == box[4] - box[2]
        dx == 2 * (px - box[1]) - a
        dy == 2 * (py - box[2]) - b
    IN  /\ InRectangle(box, px, py)
        /\ dx * dx * b * b + dy * dy * a * a <= a * a * b * b + a * b

\* the effect of one operation on the pixel (px, py) of colour c
ApplyOp(op, c, px, py) ==
    IF op.kind = "paste"
    THEN IF InPasteBox(op.box, px, py)
         THEN [i \in 1..4 |-> Blend8(op.color[4], c[i], op.color[i])]
         ELSE c
    ELSE IF op.kind = "rectangle"
    THEN IF InRectangle(op.box, px, py) THEN op.color ELSE c
    ELSE IF InEllipse(op.box, px, py) THEN op.color ELSE c

RECURSIVE ApplyOps(_, _, _, _, _)
ApplyOps(ops, i, c, px, py) ==
    IF i > Len(ops) THEN c
    ELSE ApplyOps(ops, i + 1, ApplyOp(ops[i], c, px, py), px, py)

\* the pixel at (px, py), 0 <= px < width, 0 <= py < height
PixelAt(img, px, py) == ApplyOps(img.ops, 1, img.fill, px, py)

\* a resize that accepts every size
ImageResizeAnySize(im, size) == <<TRUE, ImageNew(size[1], size[2], im.fill)>>

\* logo.resize(size, LANCZOS): <<ok, image>>.  Image.resize returns a copy
\* when the size is unchanged; the resampler rejects a side below 1 with a
\* ValueError.  Resampling an image of one colour gives that colour.
ImageResize(im, size) ==
    IF <<im.width, im.height>> = size THEN <<TRUE, im>>
    ELSE IF size[1] < 1 \/ size[2] < 1 THEN <<FALSE, NoImage>>
    ELSE <<TRUE, ImageNew(size[1], size[2], im.fill)>>

(***************************************************************************)
(* The scaling arithmetic of the loop body.                                *)
(***************************************************************************)
\* EightyPercent rounding to the nearest integer instead of truncating
EightyPercentRounded(size) == (8 * size + 5) \div 10

\* int(size * 0.8)
EightyPercent(size) == FloatToInt(FloatMul(size, PointEight))

\* NewIcon allocating the canvas at the content size
NewIconContentSize(size) == ImageNew(EightyPercent(size), EightyPercent(size), Transparent)

\* Image.new('RGBA', (size, size), (255, 255, 255, 0))
NewIcon(size) == ImageNew(size, size, Transparent)

\* ScaledSize without the wider-than-tall branch
ScaledSizeByHeight(size, logo_aspect) ==
    LET nh == EightyPercent(size)
    IN  <<FloatToInt(FloatMul(nh, logo_aspect)), nh>>

\* <<new_width, new_height>>
ScaledSize(size, logo_aspect) ==
    IF FloatGtOne(logo_aspect)
    THEN LET nw == EightyPercent(size)
         IN  <<nw, FloatToInt(FloatDiv(nw, logo_aspect))>>
    ELSE LET nh == EightyPercent(size)
         IN  <<FloatToInt(FloatMul(nh, logo_aspect)), nh>>

\* CenterOffset without the parentheses: size - n // 2
CenterOffsetPrecedence(size, n) == size - n \div 2

\* (size - n) // 2
CenterOffset(size, n) == (size - n) \div 2

(***************************************************************************)
(* create_humaya_logo(size) of create_logo.py.                             *)
(***************************************************************************)
create_humaya_logo(size) ==
    LET img == ImageNew(size, size, <<0, 0, 0, 0>>)
        margin == size \div 10
        circle_size == size - 2 * margin
        h_width == size \div 3
        h_height == size \div 2
        h_thickness == size \div 12
        h_x == (size - h_width) \div 2
        h_y == (size - h_height) \div 2
        h_middle_y == h_y + h_height \div 2 - h_thickness \div 2
        d1 == ImageDraw(img, "ellipse",
                        <<margin, margin, margin + circle_size, margin + circle_size>>,
                        orange_color)
        d2 == ImageDraw(d1, "rectangle",
                        <<h_x, h_y, h_x + h_thickness, h_y + h_height>>, white_color)
        d3 == ImageDraw(d2, "rectangle",
                        <<h_x + h_width - h_thickness, h_y, h_x + h_width, h_y + h_height>>,
                        white_color)
    IN  ImageDraw(d3, "rectangle",
                  <<h_x, h_middle_y, h_x + h_width, h_middle_y + h_thickness>>, white_color)

(***************************************************************************)
(* Size tables and output paths.                                           *)
(***************************************************************************)
Entry(n, s) == [name |-> n, size |-> s]

\* sizes with the xhdpi and xxhdpi sizes exchanged
sizes_exchanged ==
    << Entry("mipmap-mdpi", 48), Entry("mipmap-hdpi", 72), Entry("mipmap-xhdpi", 144),
       Entry("mipmap-xxhdpi", 96), Entry("mipmap-xxxhdpi", 192) >>

sizes ==
    << Entry("mipmap-mdpi", 48), Entry("mipmap-hdpi", 72), Entry("mipmap-xhdpi", 96),
       Entry("mipmap-xxhdpi", 144), Entry("mipmap-xxxhdpi", 192) >>

ios_sizes ==
    << Entry("Icon-App-20x20@1x.png", 20), Entry("Icon-App-20x20@2x.png", 40),
       Entry("Icon-App-20x20@3x.png", 60), Entry("Icon-App-29x29@1x.png", 29),
       Entry("Icon-App-29x29@2x.png", 58), Entry("Icon-App-29x29@3x.png", 87),
       Entry("Icon-App-40x40@1x.png", 40), Entry("Icon-App-40x40@2x.png", 80),
       Entry("Icon-App-40x40@3x.png", 120), Entry("Icon-App-60x60@2x.png", 120),
       Entry("Icon-App-60x60@3x.png", 180), Entry("Icon-App-76x76@1x.png", 76),
       Entry("Icon-App-76x76@2x.png", 152), Entry("Icon-App-83.5x83.5@2x.png", 167),
       Entry("Icon-App-1024x1024@1x.png", 1024) >>

Humaya == "create_humaya_icons"
Ios == "create_ios_icons"
Emblem == "create_logo"
Scripts == {Humaya, Ios, Emblem}
LogoScripts == {Humaya, Ios}

SizeTable(s) == IF s = Ios THEN ios_sizes ELSE sizes

\* IconPath with the folder left out of the join
IconPathNoFolder(s, name) == [dir |-> "res", file |-> "ic_launcher.png"]

\* os.path.join(base_path, ...): the directory and the file name of the output
IconPath(s, name) ==
    IF s = Ios THEN [dir |-> "AppIcon.appiconset", file |-> name]
    ELSE [dir |-> name, file |-> "ic_launcher.png"]

\* os.path.dirname(icon_path)
Dirname(path) == path.dir

(***************************************************************************)
(* State of one run of one script.                                         *)
(***************************************************************************)
VARIABLES
    script,        \* which of the three scripts runs
    table,         \* the size table the for loop iterates over
    logoFile,      \* 'Humaya Logo.png' on disk: [exists, image]
    pc,            \* the statement about to run
    idx,           \* position of the for loop in the table (0 before the first entry)
    logo,          \* the opened logo; in create_logo.py the drawn emblem
    icon,          \* the canvas
    logo_aspect,
    new_width,
    new_height,
    resized_logo,
    x,
    y,
    dirs,          \* directories made by os.makedirs
    files,         \* output files written: path -> image
    printed,       \* lines printed
    err            \* the exception that ended the run, "" if none

vars == <<script, table, logoFile, pc, idx, logo, icon, logo_aspect, new_width,
          new_height, resized_logo, x, y, dirs, files, printed, err>>

locals == <<logo, icon, logo_aspect, new_width, new_height, resized_logo, x, y>>

\* the entry the loop body works on, and its two components
entry == table[idx]
size == entry.size
icon_path == IconPath(script, entry.name)

LogoColors == {orange_color, HalfWhite}

\* logo files of the single-entry specification: a header of any width and
\* height up to MaxDim, zero included
SmallLogos ==
    {[exists |-> TRUE, image |-> ImageNew(w, h, c)] :
        w \in 0..MaxDim, h \in 0..MaxDim, c \in LogoColors}

\* logo files of the full runs
RunLogos ==
    {[exists |-> TRUE, image |-> ImageNew(d[1], d[2], orange_color)] :
        d \in {<<200, 100>>, <<100, 200>>, <<64, 64>>, <<57, 13>>, <<400, 1>>,
               <<0, 64>>, <<64, 0>>}}

MissingFile == [exists |-> FALSE, image |-> NoImage]

InitLocals ==
    /\ pc = IF script \in LogoScripts THEN "open" ELSE "for"
    /\ idx = 0
    /\ logo = NoImage
    /\ icon = NoImage
    /\ logo_aspect = FZero
    /\ new_width = 0
    /\ new_height = 0
    /\ resized_logo = NoImage
    /\ x = 0
    /\ y = 0
    /\ dirs = {}
    /\ files = <<>>
    /\ printed = <<>>
    /\ err = ""

\* the loop body applied to one entry of any size in the bounds, on any logo
\* up to MaxDim x MaxDim: the renderIcon / renderEmblem of the specification,
\* including the sizes and logos it declares invalid
Init ==
    /\ script \in Scripts
    /\ \E s \in (0 - 1)..MaxSize :
          /\ script = Emblem => s # 0
          /\ table = <<Entry(SizeTable(script)[1].name, s)>>
    /\ logoFile \in IF script \in LogoScripts THEN SmallLogos \cup {MissingFile}
                    ELSE {MissingFile}
    /\ InitLocals

\* a run of a script over its own size table
InitRun ==
    /\ script \in Scripts
    /\ table = SizeTable(script)
    /\ logoFile \in IF script \in LogoScripts THEN RunLogos \cup {MissingFile}
                    ELSE {MissingFile}
    /\ InitLocals

Raise(e) ==
    /\ pc' = "error"
    /\ err' = e

\* Image.open identifies no image in a file whose header has width 0; one
\* of height 0 is refused by the later releases of the library only
Identified(file) == file.image.width > 0

Unidentified(file) == file.image.width <= 0 \/ file.image.height <= 0

\* logo = Image.open(logo_path)
OpenLogo ==
    /\ pc = "open"
    /\ logoFile.exists
    /\ Identified(logoFile)
    /\ logo' = logoFile.image
    /\ pc' = "for"
    /\ UNCHANGED <<script, table, logoFile, idx, icon, logo_aspect, new_width, new_height,
                   resized_logo, x, y, dirs, files, printed, err>>

\* Image.open raises: the file is missing or is no image
OpenFail ==
    /\ pc = "open"
    /\ IF ~logoFile.exists
       THEN Raise("FileNotFoundError")
       ELSE Unidentified(logoFile) /\ Raise("UnidentifiedImageError")
    /\ UNCHANGED <<script, table, logoFile, idx, locals, dirs, files, printed>>

\* for folder, size in sizes.items(): the next entry, or the end of the loop
ForEach ==
    /\ pc = "for"
    /\ IF idx < Len(table)
       THEN /\ idx' = idx + 1
            /\ pc' = IF script \in LogoScripts THEN "new" ELSE "draw"
       ELSE /\ idx' = idx
            /\ pc' = "return"
    /\ UNCHANGED <<script, table, logoFile, locals, dirs, files, printed, err>>

\* icon = Image.new('RGBA', (size, size), (255, 255, 255, 0)); a negative size raises
NewCanvas ==
    /\ pc = "new"
    /\ IF size < 0
       THEN /\ Raise("ValueError")
            /\ icon' = icon
       ELSE /\ icon' = NewIcon(size)
            /\ pc' = "scale"
            /\ err' = err
    /\ UNCHANGED <<script, table, logoFile, idx, logo, logo_aspect, new_width, new_height,
                   resized_logo, x, y, dirs, files, printed>>

\* logo_aspect = logo.width / logo.height and the if/else computing new_width, new_height
Scale ==
    /\ pc = "scale"
    /\ IF logo.height = 0
       THEN /\ Raise("ZeroDivisionError")
            /\ UNCHANGED <<logo_aspect, new_width, new_height>>
       ELSE /\ logo_aspect' = TrueDiv(logo.width, logo.height)
            /\ new_width' = ScaledSize(size, logo_aspect')[1]
            /\ new_height' = ScaledSize(size, logo_aspect')[2]
            /\ pc' = "resize"
            /\ err' = err
    /\ UNCHANGED <<script, table, logoFile, idx, logo, icon, resized_logo, x, y, dirs,
                   files, printed>>

\* resized_logo = logo.resize((new_width, new_height), LANCZOS)
Resize ==
    /\ pc = "resize"
    /\ LET r == ImageResize(logo, <<new_width, new_height>>)
       IN  IF r[1]
           THEN /\ resized_logo' = r[2]
                /\ pc' = "center"
                /\ err' = err
           ELSE /\ Raise("ValueError")
                /\ resized_logo' = resized_logo
    /\ UNCHANGED <<script, table, logoFile, idx, logo, icon, logo_aspect, new_width,
                   new_height, x, y, dirs, files, printed>>

\* x = (size - new_width) // 2; y = (size - new_height) // 2
Center ==
    /\ pc = "center"
    /\ x' = CenterOffset(size, new_width)
    /\ y' = CenterOffset(size, new_height)
    /\ pc' = "paste"
    /\ UNCHANGED <<script, table, logoFile, idx, logo, icon, logo_aspect, new_width,
                   new_height, resized_logo, dirs, files, printed, err>>

\* icon.paste(resized_logo, (x, y), resized_logo)
Paste ==
    /\ pc = "paste"
    /\ icon' = ImagePaste(icon, resized_logo, x, y)
    /\ pc' = "makedirs"
    /\ UNCHANGED <<script, table, logoFile, idx, logo, logo_aspect, new_width, new_height,
                   resized_logo, x, y, dirs, files, printed, err>>

\* logo = create_humaya_logo(size)
DrawEmblem ==
    /\ pc = "draw"
    /\ IF size < 0
       THEN /\ Raise("ValueError")
            /\ logo' = logo
       ELSE /\ logo' = create_humaya_logo(size)
            /\ pc' = "makedirs"
            /\ err' = err
    /\ UNCHANGED <<script, table, logoFile, idx, icon, logo_aspect, new_width, new_height,
                   resized_logo, x, y, dirs, files, printed>>

\* os.makedirs(os.path.dirname(icon_path), exist_ok=True)
Makedirs ==
    /\ pc = "makedirs"
    /\ dirs' = dirs \cup {Dirname(icon_path)}
    /\ pc' = "save"
    /\ UNCHANGED <<script, table, logoFile, idx, locals, files, printed, err>>

\* os.makedirs raises: the directory cannot be created
MakedirsFail ==
    /\ pc = "makedirs"
    /\ Raise("OSError")
    /\ UNCHANGED <<script, table, logoFile, idx, locals, dirs, files, printed>>

\* the image the script saves: icon, or logo in create_logo.py
Output == IF script \in LogoScripts THEN icon ELSE logo

\* the files after writing img to path, an existing file overwritten
WriteFile(fs, path, img) ==
    [q \in DOMAIN fs \cup {path} |-> IF q = path THEN img ELSE fs[q]]

\* icon.save(icon_path, 'PNG'); opening a file in a missing directory raises
Save ==
    /\ pc = "save"
    /\ IF Dirname(icon_path) \in dirs
       THEN /\ files' = WriteFile(files, icon_path, Output)
            /\ pc' = "print"
            /\ err' = err
       ELSE /\ Raise("FileNotFoundError")
            /\ files' = files
    /\ UNCHANGED <<script, table, logoFile, idx, locals, dirs, printed>>

\* save raises: the destination is not writable
SaveFail ==
    /\ pc = "save"
    /\ Raise("OSError")
    /\ UNCHANGED <<script, table, logoFile, idx, locals, dirs, files, printed>>

\* print(f"Created ... ({size}x{size})")
PrintCreated ==
    /\ pc = "print"
    /\ printed' = Append(printed, [msg |-> "Created", name |-> entry.name, size |-> size])
    /\ pc' = "for"
    /\ UNCHANGED <<script, table, logoFile, idx, locals, dirs, files, err>>

\* the function returns and __main__ prints the success line
Finish ==
    /\ pc = "return"
    /\ printed' = Append(printed, [msg |-> "success", name |-> "", size |-> 0])
    /\ pc' = "done"
    /\ UNCHANGED <<script, table, logoFile, idx, locals, dirs, files, err>>

Next ==
    \/ OpenLogo
    \/ OpenFail
    \/ ForEach
    \/ NewCanvas
    \/ Scale
    \/ Resize
    \/ Center
    \/ Paste
    \/ DrawEmblem
    \/ Makedirs
    \/ MakedirsFail
    \/ Save
    \/ SaveFail
    \/ PrintCreated
    \/ Finish

Spec == Init /\ [][Next]_vars

SpecRun == InitRun /\ [][Next]_vars

(***************************************************************************)
(* Properties.                                                             *)
(***************************************************************************)
InLogoLoop == script \in LogoScripts /\ idx >= 1

\* the inputs renderIcon is specified for
ValidInput == logo.width > 0 /\ logo.height > 0 /\ size > 0

\* the canvas of the current entry has been allocated
Allocated ==
    /\ InLogoLoop
    /\ \/ pc \in {"scale", "resize", "center", "paste", "makedirs", "save", "print"}
       \/ pc = "error" /\ size >= 0

\* new_width and new_height of the current entry have been computed
Scaled ==
    /\ InLogoLoop
    /\ \/ pc \in {"resize", "center", "paste", "makedirs", "save", "print"}
       \/ pc = "error" /\ err \in {"ValueError", "OSError", "FileNotFoundError"} /\ size >= 0

Centered == InLogoLoop /\ pc \in {"paste", "makedirs", "save", "print"}

Pasted == InLogoLoop /\ pc \in {"makedirs", "save", "print"}

Floor80(n) == (4 * n) \div 5

Abs(n) == IF n < 0 THEN 0 - n ELSE n

\* C1: for a source of positive width and height and a target size > 0, the
\* canvas of the loop body, and the image written from it, is targetSize wide
\* and targetSize high whatever the source's dimensions.
C1_CanvasSquare ==
    (InLogoLoop /\ ValidInput) =>
        /\ Allocated => icon.width = size /\ icon.height = size
        /\ icon_path \in DOMAIN files =>
              files[icon_path].width = size /\ files[icon_path].height = size

C1_Witness ==
    /\ InLogoLoop /\ ValidInput /\ pc = "print"
    /\ logo.width > 2 * logo.height
    /\ icon_path \in DOMAIN files
    /\ files[icon_path].width = size /\ files[icon_path].height = size

\* C2: the dominant dimension of the resized content is floor(targetSize * 0.8):
\* the width for a source wider than tall, the height otherwise.
C2_DominantDimension ==
    (Scaled /\ ValidInput) =>
        /\ logo.width > logo.height => new_width = Floor80(size)
        /\ logo.width <= logo.height => new_height = Floor80(size)

C2_Witness ==
    /\ Scaled /\ ValidInput /\ pc = "center"
    /\ logo.width > logo.height
    /\ size % 5 = 2
    /\ new_width = Floor80(size)

\* C3: the centering offsets keep the content inside the canvas and the two
\* margins of each axis differ by at most 1.
C3_CenteringOffsets ==
    (Centered /\ ValidInput) =>
        /\ x >= 0 /\ y >= 0
        /\ x + new_width <= size /\ y + new_height <= size
        /\ Abs(x - (size - new_width - x)) <= 1
        /\ Abs(y - (size - new_height - y)) <= 1

C3_Witness ==
    /\ Centered /\ ValidInput
    /\ logo.width > logo.height
    /\ (size - new_width) % 2 = 1 /\ (size - new_height) % 2 = 0
    /\ x = (size - new_width - 1) \div 2
    /\ y > x

\* C4: neither dimension of the resized content exceeds floor(targetSize * 0.8),
\* in both branches.
C4_ContentCapped ==
    (Scaled /\ ValidInput) =>
        new_width <= Floor80(size) /\ new_height <= Floor80(size)

C4_Witness ==
    /\ Scaled /\ ValidInput /\ pc = "center"
    /\ logo.width > logo.height
    /\ new_width = Floor80(size) /\ new_height < new_width /\ new_height >= 1

\* C5: after the paste every canvas pixel outside the rectangle
\* [x, x + new_width) x [y, y + new_height) has alpha 0.
C5_OutsideTransparent ==
    (Pasted /\ size > 0) =>
        \A px \in 0..(size - 1), py \in 0..(size - 1) :
            ~(x <= px /\ px < x + new_width /\ y <= py /\ py < y + new_height)
                => PixelAt(icon, px, py)[4] = 0

C5_Witness ==
    /\ Pasted /\ ValidInput
    /\ x > 0 /\ y > 0
    /\ PixelAt(icon, x, y)[4] > 0
    /\ PixelAt(icon, x - 1, y)[4] = 0
    /\ PixelAt(icon, x + new_width, y + new_height)[4] = 0

\* the source image on disk has zero width or zero height
ZeroSource == logoFile.exists /\ (logoFile.image.width = 0 \/ logoFile.image.height = 0)

\* the one entry of the table asks for a size <= 0
BadSize == table[1].size <= 0

\* C6: a source of zero width or zero height, or a target size <= 0, makes the
\* rendering fail: the run never gets past the resize, ends in an error and
\* writes no file.  A zero source alone fails on the source (it is not
\* identified by Image.open, or the aspect ratio divides by zero); a size <= 0
\* alone fails on the size (ValueError from Image.new or from the resize).
C6_InvalidRejected ==
    (script \in LogoScripts /\ (ZeroSource \/ BadSize)) =>
        /\ pc \in {"open", "for", "new", "scale", "resize", "error"}
        /\ pc = "for" => idx = 0
        /\ DOMAIN files = {}
        /\ dirs = {}
        /\ (pc = "error" /\ ~BadSize) =>
               err \in {"UnidentifiedImageError", "ZeroDivisionError"}
        /\ (pc = "error" /\ ~ZeroSource /\ logoFile.exists) => err = "ValueError"

\* a source of height 0 that was opened has failed at the aspect ratio, and
\* nothing was written
C6_Witness ==
    /\ script \in LogoScripts
    /\ ZeroSource
    /\ ~BadSize
    /\ idx = 1
    /\ pc = "error"
    /\ err = "ZeroDivisionError"
    /\ DOMAIN files = {}

\* the paths of the first n table entries
PathsUpTo(n) == {IconPath(script, table[i].name) : i \in 1..n}

Succeeded == Len(printed) > 0 /\ printed[Len(printed)].msg = "success"

RunEnded == pc \in {"done", "error"}

\* C7 as claimed: a run ends with every file of the table written or with none.
C7_AllOrNothing ==
    RunEnded => (DOMAIN files = {} \/ DOMAIN files = PathsUpTo(Len(table)))

\* C7 as amended: a run stops at its first error without reporting success and
\* leaves exactly the files of the entries before the failing one; a run
\* without error writes every file of the table and reports success.
C7_AbortOnFirstError ==
    /\ pc = "error" =>
          /\ err # ""
          /\ ~Succeeded
          /\ DOMAIN files = PathsUpTo(IF idx = 0 THEN 0 ELSE idx - 1)
          /\ Len(printed) = (IF idx = 0 THEN 0 ELSE idx - 1)
    /\ pc = "done" =>
          /\ err = ""
          /\ Succeeded
          /\ DOMAIN files = PathsUpTo(Len(table))
          /\ Cardinality(DOMAIN files) = Len(table)

C7_Witness ==
    /\ pc = "error"
    /\ idx = 3
    /\ Cardinality(DOMAIN files) = 2
    /\ ~Succeeded

AndroidSide ==
    [d \in {"mipmap-mdpi", "mipmap-hdpi", "mipmap-xhdpi", "mipmap-xxhdpi",
            "mipmap-xxxhdpi"} |->
        IF d = "mipmap-mdpi" THEN 48
        ELSE IF d = "mipmap-hdpi" THEN 72
        ELSE IF d = "mipmap-xhdpi" THEN 96
        ELSE IF d = "mipmap-xxhdpi" THEN 144
        ELSE 192]

\* C8: an Android run that completes has written exactly the five files
\* ic_launcher.png, one per density directory, each image square with the side
\* of its density; every directory is made before its file is written, so no
\* save finds its directory missing.
C8_AndroidOutputs ==
    script \in {Humaya, Emblem} =>
        /\ \A f \in DOMAIN files : f.dir \in dirs
        /\ pc = "save" => Dirname(icon_path) \in dirs
        /\ ~(idx >= 1 /\ pc = "error" /\ err = "FileNotFoundError")
        /\ pc = "done" =>
              /\ DOMAIN files =
                    {[dir |-> d, file |-> "ic_launcher.png"] : d \in DOMAIN AndroidSide}
              /\ \A f \in DOMAIN files :
                    files[f].width = AndroidSide[f.dir] /\ files[f].height = AndroidSide[f.dir]

C8_Witness ==
    /\ script = Humaya
    /\ pc = "done"
    /\ Cardinality(DOMAIN files) = 5
    /\ files[[dir |-> "mipmap-xhdpi", file |-> "ic_launcher.png"]].width = 96

\* measurements on the pixels of an image
PixelsWhere(img, P(_)) ==
    {q \in (0..(img.width - 1)) \X (0..(img.height - 1)) : P(PixelAt(img, q[1], q[2]))}

Least(S) == CHOOSE v \in S : \A u \in S : v <= u
Greatest(S) == CHOOSE v \in S : \A u \in S : v >= u
Columns(S) == {q[1] : q \in S}
Rows(S) == {q[2] : q \in S}

\* the number of pixels of S in a row, counted from column c while they adjoin
RunFrom(S, c, row) ==
    Cardinality({d \in c..Greatest(Columns(S)) : \A k \in c..d : <<k, row>> \in S})

\* C9: the emblem of a given size is a circle inset by size // 10 on every
\* side, size - 2 * (size // 10) pixels across, with a centered H that is
\* size // 3 pixels wide, size // 2 high and drawn with strokes size // 12 thick.
C9_EmblemGeometry ==
    (script = Emblem /\ pc \in {"makedirs", "save", "print"}) =>
        LET painted == PixelsWhere(logo, LAMBDA c : c[4] # 0)
            glyph == PixelsWhere(logo, LAMBDA c : c = white_color)
            left == Least(Columns(painted))
            right == Greatest(Columns(painted))
            top == Least(Rows(painted))
            bottom == Greatest(Rows(painted))
            gl == Least(Columns(glyph))
            gr == Greatest(Columns(glyph))
            gt == Least(Rows(glyph))
            gb == Greatest(Rows(glyph))
        IN  /\ left = size \div 10 /\ top = size \div 10
            /\ size - 1 - right = size \div 10 /\ size - 1 - bottom = size \div 10
            /\ right - left + 1 = size - 2 * (size \div 10)
            /\ gr - gl + 1 = size \div 3
            /\ gb - gt + 1 = size \div 2
            /\ RunFrom(glyph, gl, gt) = size \div 12
            /\ gl + gr + 1 = size /\ gt + gb + 1 = size

\* C10: the resized content keeps the source's aspect ratio up to flooring,
\* new_height = floor(new_width * height / width) for a source wider than tall
\* and new_width = floor(new_height * width / height) otherwise; a 200 x 100
\* source at size 96 gives 76 x 38 placed at (10, 29).  (The claim's further
\* statement that both dimensions are at least 1 is C10_ResizedPositive.)
C10_AspectPreserved ==
    /\ (Scaled /\ ValidInput) =>
          /\ logo.width > logo.height =>
                new_height = (new_width * logo.height) \div logo.width
          /\ logo.width <= logo.height =>
                new_width = (new_height * logo.width) \div logo.height
    /\ (Centered /\ logo.width = 200 /\ logo.height = 100 /\ size = 96) =>
          new_width = 76 /\ new_height = 38 /\ x = 10 /\ y = 29

\* the remaining statement of C10: both resized dimensions are at least 1
C10_ResizedPositive ==
    (Scaled /\ ValidInput) => (new_width >= 1 /\ new_height >= 1)

====
